---- MODULE Spec2Model ----
(***************************************************************************)
(* Model of retailx_ai/workflow.py: a question-answering workflow driven   *)
(* as a five-node graph (feasibility, query-writing, query-execution,      *)
(* answer-writing, refusal) over a session-state dictionary.               *)
(*                                                                         *)
(* Python values are records [t |-> type name, v |-> content], a text      *)
(* being a sequence of symbols (characters or lexemes).  A Python dict is  *)
(* a function from its keys to values, so a key that was never written is  *)
(* simply not in the DOMAIN.  The two collaborators (the language model    *)
(* and the data store) are external: a call either raises or returns a     *)
(* text drawn from a bounded set.                                          *)
(*                                                                         *)
(* Library behaviour taken as given: model(prompt) returns the completion  *)
(* as a str or raises; workflow.invoke(state) drives the graph from the    *)
(* entry point along the edges, handing each node the dict of the fields   *)
(* written so far and merging the dict it returns; PromptTemplate.format   *)
(* raises KeyError when a declared input variable is not among its keyword *)
(* arguments and ignores extra ones.                                       *)
(*                                                                         *)
(* The driver is one action, InvokeNode, that runs whichever node the      *)
(* invocation stands at: the step functions are operators it applies.      *)
(* Spec is the program (run_workflow invoked again and again); SpecAll adds *)
(* a caller that applies one module-level function directly.              *)
(***************************************************************************)
EXTENDS Naturals, Sequences, FiniteSets

VARIABLES
    pc,        \* where the invocation stands: "idle", a node name, "returned", "raised"
    state,     \* the session-state dict of the running invocation
    returned,  \* the value run_workflow returned (NoValue until it returns)
    exc,       \* the type of the exception that left run_workflow, "" if none
    log,       \* the nodes the graph driver invoked in this invocation, in order
    calls,     \* the collaborator calls made in this invocation, in order
    dbDown,    \* environment: the data store is unreachable during this invocation
    runs,      \* number of run_workflow invocations started so far
    prev,      \* the state dict the previous invocation left behind (history)
    call,      \* the last direct call of a step function: its input and result
    trim       \* the last direct application of parse_string_output

vars == <<pc, state, returned, exc, log, calls, dbDown, runs, prev, call, trim>>

(* ------------------------------ bounds -------------------------------- *)

MaxRuns == 2

\* longest raw text handed to parse_string_output directly
MaxLen == 3

(* --------------------------- Python values ---------------------------- *)

Str(s) == [t |-> "str", v |-> s]
PyTrue == [t |-> "bool", v |-> <<"True">>]
PyFalse == [t |-> "bool", v |-> <<"False">>]
PyNone == [t |-> "NoneType", v |-> <<>>]
PyInt(d) == [t |-> "int", v |-> <<d>>]
NoValue == [t |-> "unset", v |-> <<>>]

\* Python truthiness, as `if x` evaluates it.
Truthy(x) ==
    CASE x.t = "bool" -> x = PyTrue
      [] x.t = "str" -> x.v /= <<>>
      [] x.t = "int" -> x.v /= <<"0">>
      [] OTHER -> FALSE

EmptyDict == [k \in {} |-> NoValue]

\* a variant of Merge that replaces the state by the returned fields
MergeReplace(d, u) == u

\* dict.update / the driver's merge of a node's returned fields into the state
Merge(d, u) ==
    [k \in (DOMAIN d) \cup (DOMAIN u) |-> IF k \in DOMAIN u THEN u[k] ELSE d[k]]

(* ----------------------------- constants ------------------------------ *)

DB_DESCRIPTION == Str(<<"DB_DESCRIPTION">>)

StateKeys == {"question", "plan", "can_answer", "sql_query", "sql_result", "answer"}

can_answer_router_prompt ==
    [name |-> "can_answer_router_prompt",
     input_variables |-> <<"data_description", "question">>]

write_query_prompt ==
    [name |-> "write_query_prompt",
     input_variables |-> <<"data_description", "question", "plan">>]

write_answer_prompt ==
    [name |-> "write_answer_prompt",
     input_variables |-> <<"question", "plan", "sql_query", "sql_result">>]

cannot_answer_prompt ==
    [name |-> "cannot_answer_prompt",
     input_variables |-> <<"question", "problem">>]

Range(s) == {s[i] : i \in DOMAIN s}

\* PromptTemplate.format(**kwargs): every declared input variable must be among
\* the keyword arguments (extra ones are ignored), else KeyError.
Format(template, kwargs) ==
    IF Range(template.input_variables) \subseteq DOMAIN kwargs
    THEN [raised |-> FALSE, exc |-> "",
          prompt |-> [name |-> template.name,
                      args |-> [i \in DOMAIN template.input_variables |->
                                   kwargs[template.input_variables[i]]]]]
    ELSE [raised |-> TRUE, exc |-> "KeyError",
          prompt |-> [name |-> template.name, args |-> <<>>]]

(* ------------------------- the model's outputs ------------------------- *)

\* A text the model returns at the feasibility step is a sequence of JSON
\* lexemes (or of other words, when the model does not answer in JSON).
LexReasoning == "\"reasoning\""
LexCanAnswer == "\"can_answer\""
LexR == "\"r\""
LexNo == "\"no\""

StringLexemes == {LexReasoning, LexCanAnswer, LexR, LexNo}
ScalarLexemes == StringLexemes \cup {"true", "false", "null", "0", "1"}

\* the Python str a JSON string lexeme decodes to (its text without the quotes)
StringContent(lex) ==
    CASE lex = LexReasoning -> <<"reasoning">>
      [] lex = LexCanAnswer -> <<"can_answer">>
      [] lex = LexR -> <<"r">>
      [] lex = LexNo -> <<"no">>

\* the dict key a JSON string lexeme decodes to
KeyOf(lex) ==
    CASE lex = LexReasoning -> "reasoning"
      [] lex = LexCanAnswer -> "can_answer"
      [] lex = LexR -> "r"
      [] lex = LexNo -> "no"

\* the Python value a JSON scalar decodes to
ScalarValue(lex) ==
    CASE lex = "true" -> PyTrue
      [] lex = "false" -> PyFalse
      [] lex = "null" -> PyNone
      [] lex \in {"0", "1"} -> PyInt(lex)
      [] lex \in StringLexemes -> Str(StringContent(lex))

ObjTrue == <<"{", LexReasoning, ":", LexR, ",", LexCanAnswer, ":", "true", "}">>
ObjFalse == <<"{", LexReasoning, ":", LexR, ",", LexCanAnswer, ":", "false", "}">>
ObjCanAnswerString == <<"{", LexReasoning, ":", LexR, ",", LexCanAnswer, ":", LexNo, "}">>
ObjCanAnswerNull == <<"{", LexReasoning, ":", LexR, ",", LexCanAnswer, ":", "null", "}">>
ObjCanAnswerOne == <<"{", LexReasoning, ":", LexR, ",", LexCanAnswer, ":", "1", "}">>
ObjNoCanAnswer == <<"{", LexReasoning, ":", LexR, "}">>
ObjNoReasoning == <<"{", LexCanAnswer, ":", "true", "}">>
ObjEmpty == <<"{", "}">>
ArrEmpty == <<"[", "]">>
BareTrue == <<"true">>
Prose == <<"Sure", "!">>
ProseThenObj == <<"Sure", "!">> \o ObjTrue
Truncated == <<"{", LexReasoning, ":", LexR, ",">>
EmptyText == <<>>

\* the texts the model may return at the feasibility step
FeasibilityOutputs ==
    {ObjTrue, ObjFalse, ObjCanAnswerString, ObjCanAnswerNull, ObjCanAnswerOne,
     ObjNoCanAnswer, ObjNoReasoning, ObjEmpty, ArrEmpty, BareTrue,
     Prose, ProseThenObj, Truncated, EmptyText}

\* the raw texts the model may return at a text-producing step: characters,
\* with spaces and newlines around the payload
Whitespace == {" ", "\n"}
RawOutputs ==
    {<<"S">>, <<" ", "S">>, <<"S", "\n">>, <<" ", "S", " ", "x", "\n">>, <<" ">>, <<>>}

\* a reply of the model collaborator: it raises (transport, authentication)
\* or returns a text
ModelFailure == [raised |-> TRUE, text |-> <<>>]
ModelText(tx) == [raised |-> FALSE, text |-> tx]
ModelReplies(node) ==
    {ModelFailure} \cup
    {ModelText(tx) : tx \in IF node = "check_if_can_answer_question"
                            THEN FeasibilityOutputs ELSE RawOutputs}

\* a reply of the data store: it raises, or returns a table (rendered by
\* to_markdown).  An unreachable store raises for every query.
DbFailure(msg) == [raised |-> TRUE, text |-> <<msg>>]
DbTable == [raised |-> FALSE, text |-> <<"|", "AVG", "|">>]
DbReplies(down) ==
    IF down THEN {DbFailure("unable to open database file")}
    ELSE {DbTable, DbFailure("no such column")}

(* ------------------------------ json.loads ----------------------------- *)

\* The members of a JSON object: string ":" scalar, separated by ",".
MembersOk(inner) ==
    /\ Len(inner) % 4 = 3
    /\ \A i \in DOMAIN inner :
          CASE i % 4 = 1 -> inner[i] \in StringLexemes
            [] i % 4 = 2 -> inner[i] = ":"
            [] i % 4 = 3 -> inner[i] \in ScalarLexemes
            [] OTHER -> inner[i] = ","

MemberKeys(inner) == {KeyOf(inner[i]) : i \in {j \in DOMAIN inner : j % 4 = 1}}

\* a repeated key keeps its last value, as json.loads does
MemberValue(inner, k) ==
    LET last == CHOOSE i \in DOMAIN inner :
                   /\ i % 4 = 1
                   /\ KeyOf(inner[i]) = k
                   /\ \A j \in DOMAIN inner :
                         (j % 4 = 1 /\ KeyOf(inner[j]) = k) => j <= i
    IN ScalarValue(inner[last + 2])

\* json.loads(output) on the JSON subset the outputs use: a scalar, an empty
\* array, or an object of scalar members.  ok = FALSE is JSONDecodeError.
json_loads(output) ==
    LET n == Len(output)
        inner == SubSeq(output, 2, n - 1)
        bad == [ok |-> FALSE, kind |-> "error", scalar |-> NoValue, items |-> EmptyDict]
    IN  IF n = 1 /\ output[1] \in ScalarLexemes
        THEN [ok |-> TRUE, kind |-> "scalar", scalar |-> ScalarValue(output[1]),
              items |-> EmptyDict]
        ELSE IF output = <<"[", "]">>
        THEN [ok |-> TRUE, kind |-> "list", scalar |-> NoValue, items |-> EmptyDict]
        ELSE IF n >= 2 /\ output[1] = "{" /\ output[n] = "}"
        THEN IF n = 2
             THEN [ok |-> TRUE, kind |-> "dict", scalar |-> NoValue, items |-> EmptyDict]
             ELSE IF MembersOk(inner)
             THEN [ok |-> TRUE, kind |-> "dict", scalar |-> NoValue,
                   items |-> [k \in MemberKeys(inner) |-> MemberValue(inner, k)]]
             ELSE bad
        ELSE bad

\* a variant of the fallback that lets the question through
FallbackDictCanAnswer == [reasoning |-> Str(<<>>), can_answer |-> PyTrue]

\* the fallback of parse_json_output
FallbackDict == [reasoning |-> Str(<<>>), can_answer |-> PyFalse]

parse_json_output(output) ==
    LET r == json_loads(output)
    IN  IF r.ok THEN r
        ELSE [ok |-> TRUE, kind |-> "dict", scalar |-> NoValue, items |-> FallbackDict]

(* --------------------------- step functions --------------------------- *)

\* What a function call comes to: it raised exc, or returned `update`; `made`
\* lists the collaborator calls it made, in order.
Raise(e, made) == [raised |-> TRUE, exc |-> e, update |-> EmptyDict, made |-> made]
Return(u, made) == [raised |-> FALSE, exc |-> "", update |-> u, made |-> made]

ModelCall(reply) == [to |-> "model", raised |-> reply.raised, text |-> reply.text]
DbCall(reply) == [to |-> "query_db", raised |-> reply.raised, text |-> reply.text]

\* a variant of parse_string_output that drops at most one whitespace
\* character at each end
parse_string_output_one(output) ==
    LET n == Len(output)
        lo == IF n >= 1 /\ output[1] \in Whitespace THEN 2 ELSE 1
        hi == IF n >= lo /\ output[n] \in Whitespace THEN n - 1 ELSE n
    IN  SubSeq(output, lo, hi)

\* output.strip(): drop the whitespace at both ends
parse_string_output(output) ==
    LET keep == {i \in DOMAIN output : output[i] \notin Whitespace}
    IN  IF keep = {} THEN <<>>
        ELSE LET lo == CHOOSE i \in keep : \A j \in keep : i <= j
                 hi == CHOOSE i \in keep : \A j \in keep : j <= i
             IN  SubSeq(output, lo, hi)

\* can_answer_router(input_data): format, call the model, parse.  On return,
\* `update` is left empty and `parsed` carries the parsed value.
can_answer_router(input_data, reply) ==
    LET p == Format(can_answer_router_prompt, input_data)
    IN  IF p.raised THEN [call |-> Raise(p.exc, <<>>), parsed |-> json_loads(<<>>)]
        ELSE IF reply.raised
        THEN [call |-> Raise("ModelError", <<ModelCall(reply)>>), parsed |-> json_loads(<<>>)]
        ELSE [call |-> Return(EmptyDict, <<ModelCall(reply)>>),
              parsed |-> parse_json_output(reply.text)]

\* result[key] on what json.loads returned: a dict gives the value or
\* KeyError, anything else is not subscriptable by a str (TypeError)
Subscript(parsed, key) ==
    IF parsed.kind /= "dict" THEN [raised |-> TRUE, exc |-> "TypeError", value |-> NoValue]
    ELSE IF key \notin DOMAIN parsed.items
    THEN [raised |-> TRUE, exc |-> "KeyError", value |-> NoValue]
    ELSE [raised |-> FALSE, exc |-> "", value |-> parsed.items[key]]

\* a variant of check_if_can_answer_question that swallows a failed model
\* call and degrades to the refusal outcome
check_if_can_answer_question_swallow(st, env) ==
    IF "question" \notin DOMAIN st THEN Raise("KeyError", <<>>) ELSE
    LET r == can_answer_router(
                 [question |-> st["question"], data_description |-> DB_DESCRIPTION],
                 env.model)
        reasoning == Subscript(r.parsed, "reasoning")
        can == Subscript(r.parsed, "can_answer")
    IN  IF r.call.raised
        THEN Return([plan |-> Str(<<>>), can_answer |-> PyFalse], r.call.made)
        ELSE IF reasoning.raised THEN Raise(reasoning.exc, r.call.made)
        ELSE IF can.raised THEN Raise(can.exc, r.call.made)
        ELSE Return([plan |-> reasoning.value, can_answer |-> can.value], r.call.made)

check_if_can_answer_question(st, env) ==
    IF "question" \notin DOMAIN st THEN Raise("KeyError", <<>>)
    ELSE LET r == can_answer_router(
                      [question |-> st["question"], data_description |-> DB_DESCRIPTION],
                      env.model)
             reasoning == Subscript(r.parsed, "reasoning")
             can == Subscript(r.parsed, "can_answer")
         IN  IF r.call.raised THEN r.call
             ELSE IF reasoning.raised THEN Raise(reasoning.exc, r.call.made)
             ELSE IF can.raised THEN Raise(can.exc, r.call.made)
             ELSE Return([plan |-> reasoning.value, can_answer |-> can.value], r.call.made)

\* a variant of skip_question with the two labels exchanged
skip_question_exchanged(st) == IF Truthy(st["can_answer"]) THEN "yes" ELSE "no"

skip_question(st) == IF Truthy(st["can_answer"]) THEN "no" ELSE "yes"

write_query(input_data, env) ==
    LET p == Format(write_query_prompt, input_data)
    IN  IF p.raised THEN Raise(p.exc, <<>>)
        ELSE IF env.model.raised THEN Raise("ModelError", <<ModelCall(env.model)>>)
        ELSE Return([sql_query |-> Str(parse_string_output(env.model.text))],
                    <<ModelCall(env.model)>>)

\* a variant of execute_query that also writes the query back
execute_query_rewrites(st, env) ==
    IF "sql_query" \notin DOMAIN st THEN Raise("KeyError", <<>>)
    ELSE Return([sql_query |-> Str(parse_string_output(st["sql_query"].v)),
                 sql_result |-> Str(env.db.text)], <<DbCall(env.db)>>)

execute_query(st, env) ==
    IF "sql_query" \notin DOMAIN st THEN Raise("KeyError", <<>>)
    ELSE Return([sql_result |-> Str(env.db.text)], <<DbCall(env.db)>>)

write_answer(input_data, env) ==
    LET p == Format(write_answer_prompt, input_data)
    IN  IF p.raised THEN Raise(p.exc, <<>>)
        ELSE IF env.model.raised THEN Raise("ModelError", <<ModelCall(env.model)>>)
        ELSE Return([answer |-> Str(parse_string_output(env.model.text))],
                    <<ModelCall(env.model)>>)

cannot_answer(input_data, env) ==
    LET p == Format(cannot_answer_prompt, input_data)
    IN  IF p.raised THEN Raise(p.exc, <<>>)
        ELSE IF env.model.raised THEN Raise("ModelError", <<ModelCall(env.model)>>)
        ELSE Return([answer |-> Str(parse_string_output(env.model.text))],
                    <<ModelCall(env.model)>>)

(* ------------------------------ the graph ----------------------------- *)

END == "__end__"

Nodes == {"check_if_can_answer_question", "write_query", "execute_query",
          "write_answer", "cannot_answer"}

EntryPoint == "check_if_can_answer_question"

\* add_node: the function each node runs on the state the driver hands it
NodeFunction(node, st, env) ==
    CASE node = "check_if_can_answer_question" -> check_if_can_answer_question(st, env)
      [] node = "write_query" -> write_query(st, env)
      [] node = "execute_query" -> execute_query(st, env)
      [] node = "write_answer" -> write_answer(st, env)
      [] node = "cannot_answer" -> cannot_answer(st, env)

ConditionalEdges == [yes |-> "cannot_answer", no |-> "write_query"]

\* add_conditional_edges / add_edge: the node that follows `node` in state st
NextNode(node, st) ==
    CASE node = "check_if_can_answer_question" -> ConditionalEdges[skip_question(st)]
      [] node = "write_query" -> "execute_query"
      [] node = "execute_query" -> "write_answer"
      [] node = "write_answer" -> END
      [] node = "cannot_answer" -> END

(* ----------------------------- the program ---------------------------- *)

Questions == {Str(<<"q1">>), Str(<<"q2">>)}

\* a variant of InitialState that carries a field over into the new state
InitialStateWithAnswer(question) == [question |-> question, answer |-> Str(<<>>)]

\* a variant of InitialState that keeps the dict of the previous invocation
InitialStateKept(question) == Merge(state, [question |-> question])

\* state = {"question": question}
InitialState(question) == [question |-> question]

\* no step function has been called directly yet
NoCall ==
    [fn |-> "", input |-> EmptyDict, result |-> Return(EmptyDict, <<>>),
     merged |-> EmptyDict]

\* parse_string_output has not been applied directly yet
NoTrim == [applied |-> FALSE, raw |-> <<>>, out |-> <<>>]

Init ==
    /\ pc = "idle"
    /\ state = EmptyDict
    /\ returned = NoValue
    /\ exc = ""
    /\ log = <<>>
    /\ calls = <<>>
    /\ dbDown = FALSE
    /\ runs = 0
    /\ prev = EmptyDict
    /\ call = NoCall
    /\ trim = NoTrim

\* run_workflow(question) is entered: the initial state {question} is handed
\* to the graph driver, which stands at the entry point.  The environment
\* settles whether the data store is reachable during this invocation.
RunWorkflow(question, down) ==
    /\ pc \in {"idle", "returned", "raised"}
    /\ runs < MaxRuns
    /\ pc' = EntryPoint
    /\ state' = InitialState(question)
    /\ returned' = NoValue
    /\ exc' = ""
    /\ log' = <<>>
    /\ calls' = <<>>
    /\ dbDown' = down
    /\ runs' = runs + 1
    /\ prev' = state
    /\ UNCHANGED <<call, trim>>

Tag(made, node) ==
    [i \in DOMAIN made |->
        [to |-> made[i].to, by |-> node, raised |-> made[i].raised, text |-> made[i].text]]

\* One step of the graph driver: run the current node's function on the
\* state; an exception leaves run_workflow unhandled; otherwise the returned
\* fields are merged and the edge out of the node is followed.  At END the
\* driver returns the state and run_workflow returns result["answer"].
InvokeNode(env) ==
    /\ pc \in Nodes
    /\ LET r == NodeFunction(pc, state, env)
           merged == Merge(state, r.update)
           next == NextNode(pc, merged)
       IN  /\ log' = Append(log, pc)
           /\ calls' = calls \o Tag(r.made, pc)
           /\ IF r.raised
              THEN /\ pc' = "raised"
                   /\ exc' = r.exc
                   /\ UNCHANGED <<state, returned>>
              ELSE /\ state' = merged
                   /\ IF next /= END
                      THEN /\ pc' = next
                           /\ UNCHANGED <<returned, exc>>
                      ELSE IF "answer" \in DOMAIN merged
                      THEN /\ pc' = "returned"
                           /\ returned' = merged["answer"]
                           /\ UNCHANGED exc
                      ELSE /\ pc' = "raised"
                           /\ exc' = "KeyError"
                           /\ UNCHANGED returned
    /\ UNCHANGED <<dbDown, runs, prev, call, trim>>

Next ==
    \/ \E q \in Questions, down \in BOOLEAN : RunWorkflow(q, down)
    \/ \E m \in ModelReplies(pc), d \in DbReplies(dbDown) :
          InvokeNode([model |-> m, db |-> d])

Spec == Init /\ [][Next]_vars

(* ------------------- the step functions called directly ---------------- *)

\* The step functions and parse_string_output are module-level functions: a
\* caller can apply them to any dict or text.  Their inputs are drawn from
\* the dicts over the state keys and the two template inputs that are no
\* state keys, and from the texts of at most MaxLen characters.
InputKeys == StateKeys \cup {"data_description", "problem"}

FullInput ==
    [question |-> Str(<<"q1">>), plan |-> Str(<<"r">>), can_answer |-> PyTrue,
     sql_query |-> Str(<<"SELECT">>), sql_result |-> Str(<<"|", "AVG", "|">>),
     answer |-> Str(<<"old">>), data_description |-> DB_DESCRIPTION,
     problem |-> Str(<<"r">>)]

Inputs == {[k \in K |-> FullInput[k]] : K \in SUBSET InputKeys}

Alphabet == Whitespace \cup {"S"}

RawTexts == UNION {[1..n -> Alphabet] : n \in 0..MaxLen}

\* fn(input) is called; `merged` is what the driver's merge of the returned
\* fields into `input` would give.
CallStep(fn, input, env) ==
    /\ call' = [fn |-> fn, input |-> input,
                result |-> NodeFunction(fn, input, env),
                merged |-> Merge(input, NodeFunction(fn, input, env).update)]
    /\ UNCHANGED <<pc, state, returned, exc, log, calls, dbDown, runs, prev, trim>>

\* parse_string_output(raw) is called
TrimOutput(raw) ==
    /\ trim' = [applied |-> TRUE, raw |-> raw, out |-> parse_string_output(raw)]
    /\ UNCHANGED <<pc, state, returned, exc, log, calls, dbDown, runs, prev, call>>

NoDirectCall == call = NoCall /\ trim = NoTrim

\* Either run_workflow is invoked (the program), or one function is called
\* directly on an input of the caller's choice: the two are kept apart.
NextAll ==
    \/ NoDirectCall /\ \E q \in Questions, down \in BOOLEAN : RunWorkflow(q, down)
    \/ NoDirectCall /\ \E m \in ModelReplies(pc), d \in DbReplies(dbDown) :
                          InvokeNode([model |-> m, db |-> d])
    \/ NoDirectCall /\ runs = 0 /\ \E fn \in Nodes, input \in Inputs :
          \E m \in ModelReplies(fn), d \in DbReplies(TRUE) \cup DbReplies(FALSE) :
             CallStep(fn, input, [model |-> m, db |-> d])
    \/ NoDirectCall /\ runs = 0 /\ \E raw \in RawTexts : TrimOutput(raw)

SpecAll == Init /\ [][NextAll]_vars

(* ------------------------- notions the claims use --------------------- *)

Finished == pc \in {"returned", "raised"}

Has(k) == k \in DOMAIN state

ModelCalls == {i \in DOMAIN calls : calls[i].to = "model"}
DbCalls == {i \in DOMAIN calls : calls[i].to = "query_db"}
ModelFailed == \E i \in ModelCalls : calls[i].raised

\* the number of times the driver invoked `node` in this invocation
Invocations(node) == Cardinality({i \in DOMAIN log : log[i] = node})

\* the feasibility step's model call returned a text
FeasibilityAnswered ==
    /\ Len(calls) >= 1
    /\ calls[1].by = EntryPoint
    /\ ~calls[1].raised

FeasibilityText == calls[1].text

\* the feasibility step's model output is a JSON object with a reasoning and
\* can_answer = b
FeasibilitySaid(b) ==
    /\ FeasibilityAnswered
    /\ json_loads(FeasibilityText).ok
    /\ json_loads(FeasibilityText).kind = "dict"
    /\ DOMAIN json_loads(FeasibilityText).items = {"reasoning", "can_answer"}
    /\ json_loads(FeasibilityText).items["can_answer"] = b

FeasibilityNotJson == FeasibilityAnswered /\ ~json_loads(FeasibilityText).ok

\* the fields each node's function returns for the driver to merge
ProducedFields(node) ==
    CASE node = "check_if_can_answer_question" -> {"plan", "can_answer"}
      [] node = "write_query" -> {"sql_query"}
      [] node = "execute_query" -> {"sql_result"}
      [] node = "write_answer" -> {"answer"}
      [] node = "cannot_answer" -> {"answer"}

LastNode == log[Len(log)]

(* -------------------------------- claims ------------------------------ *)

\* C1: when the feasibility step's model output is valid JSON with
\* can_answer = false, sql_query and sql_result are unset in every state of
\* the run, and the finished run went feasibility -> refusal -> end: it
\* returned the refusal step's answer, and query-writing, query-execution and
\* answer-writing were never invoked (a failed model call excepted).
C1_RefusalPath ==
    FeasibilitySaid(PyFalse) =>
        /\ ~Has("sql_query") /\ ~Has("sql_result")
        /\ (Finished /\ ~ModelFailed) =>
              /\ pc = "returned"
              /\ log = <<EntryPoint, "cannot_answer">>
              /\ Has("answer") /\ returned = state["answer"]

\* C2: when the feasibility step yields can_answer = true, sql_query is set
\* before sql_result and sql_result before answer, and the finished run
\* invoked write_query, execute_query and write_answer exactly once each, in
\* that order (a failed model call excepted).
C2_CanAnswerPath ==
    (Has("can_answer") /\ state["can_answer"] = PyTrue) =>
        /\ Has("sql_result") => Has("sql_query")
        /\ Has("answer") => Has("sql_result")
        /\ (Finished /\ ~ModelFailed) =>
              log = <<EntryPoint, "write_query", "execute_query", "write_answer">>

\* C3: when the feasibility step's model output is not valid JSON, the state
\* gets plan = "" and can_answer = false and the router sends the run to the
\* refusal step, never to query-writing, as for an explicit can_answer = false.
C3_ParseFailureDegradesToRefusal ==
    (FeasibilityNotJson /\ Len(log) >= 1) =>
        /\ exc /= "JSONDecodeError"
        /\ Has("plan") /\ state["plan"] = Str(<<>>)
        /\ Has("can_answer") /\ state["can_answer"] = PyFalse
        /\ ~Has("sql_query") /\ ~Has("sql_result")
        /\ Len(log) = 1 => pc = NextNode(EntryPoint, [can_answer |-> PyFalse])
        /\ Len(log) >= 2 => log = <<EntryPoint, "cannot_answer">>

\* C3 witness: a run whose feasibility output was prose has been routed and
\* the refusal step has been invoked.
C3_Witness ==
    /\ FeasibilityNotJson
    /\ FeasibilityText = Prose
    /\ log = <<EntryPoint, "cannot_answer">>

C5_CallCounts ==
    (Finished /\ ~ModelFailed /\ (FeasibilitySaid(PyTrue) \/ FeasibilitySaid(PyFalse))) =>
        IF FeasibilitySaid(PyFalse)
        THEN Cardinality(ModelCalls) = 2 /\ Cardinality(DbCalls) = 0
        ELSE Cardinality(ModelCalls) = 4 /\ Cardinality(DbCalls) = 1

\* C6: every invocation starts from the state {question}; a finished
\* invocation ended in exactly one of three ways: it returned the answer the
\* answer-writing step wrote, it returned the apology the refusal step wrote,
\* or an exception left run_workflow and nothing was returned; and a returned
\* value is the state's answer field.
C6_Outcomes ==
    /\ (pc = EntryPoint /\ log = <<>>) =>
          \E q \in Questions : state = [question |-> q]
    /\ Has("question")  => state["question"] \in Questions
    /\ pc = "returned" =>
          /\ exc = ""
          /\ Has("answer") /\ returned = state["answer"]
          /\ LastNode \in {"write_answer", "cannot_answer"}
    /\ pc = "raised" => exc /= "" /\ returned = NoValue
    /\ ~Finished => exc = "" /\ returned = NoValue

\* C6 witness: an invocation that started from {question} has finished.
C6_Witness ==
    /\ Finished
    /\ runs = 1
    /\ Len(log) >= 1
    /\ Has("question")

\* C7: when a model call fails, the exception leaves run_workflow: the
\* invocation has ended with that failure and returned nothing, the failed
\* call is the only failed call and the last collaborator call made (no
\* retry), the step that made it is the last step the driver ran, and none
\* of that step's fields was merged into the state.  Called directly, each
\* model-calling step function lets the failure out after that one call and
\* returns no field.
C7_ModelFailurePropagates ==
    /\ ModelFailed =>
            /\ pc = "raised"
            /\ exc = "ModelError"
            /\ returned = NoValue
            /\ Cardinality({i \in ModelCalls : calls[i].raised}) = 1
            /\ calls[Len(calls)].to = "model" /\ calls[Len(calls)].raised
            /\ LastNode = calls[Len(calls)].by
            /\ Invocations(LastNode) = 1
            /\ ProducedFields(LastNode) \cap DOMAIN state = {}
            /\ ~Has("answer")
    /\ (call.fn \in Nodes /\ \E i \in DOMAIN call.result.made :
                                call.result.made[i].to = "model" /\ call.result.made[i].raised) =>
          /\ call.result.raised /\ call.result.exc = "ModelError"
          /\ call.result.update = EmptyDict
          /\ Len(call.result.made) = 1
          /\ call.merged = call.input

\* C7 witness: the model call of a step has failed.
C7_Witness ==
    /\ ModelFailed
    /\ pc = "raised"
    /\ Len(log) = 1

\* C8: whatever text the model returns at the feasibility step, the step
\* does not fail: once it has run, plan and can_answer are both in the state
\* and the invocation has not ended with an exception at that step.
C8_FeasibilityNeverFailsOnContent ==
    (FeasibilityAnswered /\ Len(log) >= 1) =>
        /\ Has("plan") /\ Has("can_answer")
        /\ ~(pc = "raised" /\ LastNode = EntryPoint)

\* C9: whenever the driver runs the refusal step, the input it hands the
\* step holds both inputs of the refusal template (question and problem), and
\* once the step has run without a failed model call, answer is set.
C9_RefusalInputsSupplied ==
    /\ pc = "cannot_answer" =>
          Range(cannot_answer_prompt.input_variables) \subseteq DOMAIN state
    /\ (Len(log) >= 1 /\ LastNode = "cannot_answer" /\ ~ModelFailed) =>
          exc /= "KeyError" /\ Has("answer")

\* C10: whenever the driver runs the query-writing step, the input it hands
\* the step holds all three inputs of the query-writing template (question,
\* data_description and plan), and once the step has run without a failed
\* model call, sql_query is set.
C10_QueryWritingInputsSupplied ==
    /\ pc = "write_query" =>
          Range(write_query_prompt.input_variables) \subseteq DOMAIN state
    /\ (Len(log) >= 1 /\ LastNode = "write_query" /\ ~ModelFailed) =>
          exc /= "KeyError" /\ Has("sql_query")

\* the dict the feasibility step's parser returned in this invocation
FeasibilityParsed == parse_json_output(FeasibilityText).items

\* the feasibility step has returned and the router has chosen the next node
Routed == Len(log) = 1 /\ pc /= "raised"

\* C11: the router selects the refusal step when can_answer is false and the
\* query-writing step when can_answer is true, and it changes no state
\* field: the state after routing is the initial state plus exactly what
\* the feasibility step returned.
C11_RouterPure ==
    Routed =>
        /\ state["can_answer"] = PyFalse => pc = "cannot_answer"
        /\ state["can_answer"] = PyTrue => pc = "write_query"
        /\ pc \in {"cannot_answer", "write_query"}
        /\ pc = ConditionalEdges[skip_question([can_answer |-> state["can_answer"]])]
        /\ DOMAIN state = {"question", "plan", "can_answer"}
        /\ state["question"] \in Questions
        /\ state["plan"] = FeasibilityParsed["reasoning"]
        /\ state["can_answer"] = FeasibilityParsed["can_answer"]

\* C11 witness: the router has sent a run with can_answer = true to the
\* query-writing step.
C11_Witness ==
    /\ Routed
    /\ state["can_answer"] = PyTrue
    /\ pc = "write_query"

\* C12: plan and can_answer are set by one state update of the feasibility
\* step, at which none of sql_query, sql_result and answer is set; once set
\* they keep their values for the rest of the invocation (the feasibility
\* step runs once); and no state has one of them without the other.
C12_PlanAndCanAnswerTogether ==
    [][/\ Has("plan")' <=> Has("can_answer")'
       /\ (~Has("plan") /\ Has("plan")') =>
             /\ pc \in Nodes /\ pc = EntryPoint
             /\ ~Has("can_answer")
             /\ DOMAIN state' = {"question", "plan", "can_answer"}
       /\ (Has("plan") /\ runs' = runs) =>
             /\ Has("plan")'
             /\ state'["plan"] = state["plan"]
             /\ state'["can_answer"] = state["can_answer"]
       /\ Invocations(EntryPoint)' <= 1]_vars

\* C12 witness: the feasibility step has set plan and can_answer.
C12_Witness ==
    /\ Len(log) = 1
    /\ Has("plan") /\ Has("can_answer")
    /\ ~Has("sql_query") /\ ~Has("sql_result") /\ ~Has("answer")

NoCallRaised == \A i \in DOMAIN calls : ~calls[i].raised

\* C13: no step runs more than once in an invocation, and a finished
\* invocation in which every collaborator call returned reached the end
\* after exactly two steps (feasibility, refusal) or exactly four steps
\* (feasibility, query-writing, query-execution, answer-writing).
C13_NoCyclesTwoOrFourSteps ==
    /\ \A n \in Nodes : Invocations(n) <= 1
    /\ (Finished /\ NoCallRaised
           /\ (FeasibilitySaid(PyTrue) \/ FeasibilitySaid(PyFalse))) =>
          /\ pc = "returned"
          /\ \/ log = <<EntryPoint, "cannot_answer">>
             \/ log = <<EntryPoint, "write_query", "execute_query", "write_answer">>

\* C14: whenever can_answer is set, its value is a boolean, whatever text
\* the model returned at the feasibility step.
C14_CanAnswerBoolean ==
    Has("can_answer") => state["can_answer"] \in {PyTrue, PyFalse}

TextSteps == {"write_query", "write_answer", "cannot_answer"}

\* the text a direct call of a text-producing step stored under key k
Stored(k) == call.result.update[k].v

\* C16: trimming is idempotent: parse_string_output applied to its own
\* result returns it unchanged, for every raw text; and the sql_query or
\* answer a text-producing step returns is a fixed point of trimming: it is
\* the model's raw text trimmed once.
C16_TrimIdempotent ==
    /\ trim.applied =>
          /\ parse_string_output(trim.out) = trim.out
          /\ trim.out = <<>> \/ (trim.out[1] \notin Whitespace
                                 /\ trim.out[Len(trim.out)] \notin Whitespace)
          /\ \E i \in 0..Len(trim.raw) :
                /\ i + Len(trim.out) <= Len(trim.raw)
                /\ SubSeq(trim.raw, i + 1, i + Len(trim.out)) = trim.out
                /\ \A j \in DOMAIN trim.raw :
                      (j <= i \/ j > i + Len(trim.out)) => trim.raw[j] \in Whitespace
    /\ (call.fn \in TextSteps /\ ~call.result.raised) =>
          \A k \in DOMAIN call.result.update :
             /\ Stored(k) = parse_string_output(call.result.made[1].text)
             /\ parse_string_output(Stored(k)) = Stored(k)
    /\ \A k \in {"sql_query", "answer"} :
          Has(k) => parse_string_output(state[k].v) = state[k].v

\* C16 witness: a raw text with whitespace at both ends has been trimmed to
\* a shorter, non-empty text.
C16_Witness ==
    /\ trim.applied
    /\ Len(trim.raw) = MaxLen
    /\ trim.raw[1] \in Whitespace /\ trim.raw[Len(trim.raw)] \in Whitespace
    /\ trim.out /= <<>> /\ trim.out /= trim.raw

\* C17: each step changes only the fields it produces.  In a run, a driver
\* step leaves every field already set as it was (so question keeps the
\* caller's value and no field is overwritten) and adds only fields of the
\* node that ran.  Called directly, a step function returns only its own
\* fields (all of them when it returns normally), and merging them leaves
\* every other field of its input unchanged.
C17_Frame ==
    [][/\ (runs' = runs /\ log' /= log) =>
             /\ \A k \in DOMAIN state : k \in DOMAIN state' /\ state'[k] = state[k]
             /\ (DOMAIN state') \ (DOMAIN state) \subseteq ProducedFields(pc)
       /\ call'.fn \in Nodes =>
             /\ DOMAIN call'.result.update \subseteq ProducedFields(call'.fn)
             /\ ~call'.result.raised =>
                   DOMAIN call'.result.update = ProducedFields(call'.fn)
             /\ DOMAIN call'.merged = (DOMAIN call'.input) \cup (DOMAIN call'.result.update)
             /\ \A k \in (DOMAIN call'.input) \ ProducedFields(call'.fn) :
                   call'.merged[k] = call'.input[k]]_vars

\* C17 witness: the answer-writing step, called on a dict holding its four
\* inputs and no answer, has returned, and its answer has been merged.
C17_Witness ==
    /\ call.fn = "write_answer"
    /\ ~call.result.raised
    /\ DOMAIN call.input = {"question", "plan", "sql_query", "sql_result"}
    /\ DOMAIN call.merged = {"question", "plan", "sql_query", "sql_result", "answer"}

\* the fields the steps run so far in this invocation return
WrittenSoFar == UNION {ProducedFields(log[i]) : i \in DOMAIN log}

\* C18: every invocation starts with only question set, whatever the
\* previous invocation left behind, and throughout the invocation the state
\* holds, besides question, only fields written by this invocation's steps,
\* plan and can_answer being what this invocation's feasibility output
\* parsed to.
C18_FreshState ==
    /\ (pc = EntryPoint /\ log = <<>>) =>
          /\ DOMAIN state = {"question"}
          /\ returned = NoValue /\ exc = "" /\ calls = <<>>
    /\ runs >= 1 =>
          /\ Has("question")
          /\ DOMAIN state \subseteq {"question"} \cup WrittenSoFar
          /\ Has("plan") =>
                /\ state["plan"] = FeasibilityParsed["reasoning"]
                /\ state["can_answer"] = FeasibilityParsed["can_answer"]

\* C18 witness: a second invocation starts fresh although the first one
\* left plan and can_answer in its state.
C18_Witness ==
    /\ runs = 2
    /\ pc = EntryPoint /\ log = <<>>
    /\ {"plan", "can_answer"} \subseteq DOMAIN prev
    /\ DOMAIN state = {"question"}

====
